---- MODULE Spec2Model ----
(***************************************************************************)
(* Model of the brokaw NNTP client session (src/client.rs) and of the raw  *)
(* response it consumes (src/raw/response.rs).                             *)
(*                                                                         *)
(* A response first line is kept as its whitespace separated tokens, the   *)
(* first token being the three digit code.  Option<T> is a sequence of     *)
(* length zero (None) or one (Some).                                       *)
(***************************************************************************)
EXTENDS Integers, Sequences, FiniteSets, TLC

\* Number of session operations (set_group, update_capabilities, close)
\* called on one session.
MaxCalls == 2

None == <<>>
Some(x) == <<x>>

(***************************************************************************)
(* Response codes                                                          *)
(***************************************************************************)
\* types::response_code::Kind, the codes this client matches on
Kind ==
  [Capabilities |-> 101, ConnectionClosing |-> 205, GroupSelected |-> 211,
   AuthenticationAccepted |-> 281, NoSuchNewsgroup |-> 411]

\* ResponseCode::from(381) in authenticate
MoreAuthRequired == 381

\* The three digit code at the head of a first line; -1 when it is not one
\* the model's server uses.
ParseCode(tok) ==
  CASE tok = "101" -> 101
    [] tok = "205" -> 205
    [] tok = "211" -> 211
    [] tok = "281" -> 281
    [] tok = "381" -> 381
    [] tok = "411" -> 411
    [] tok = "500" -> 500
    [] OTHER -> -1

\* A decimal field of a first line; -1 when the token is not a number.
ParseNum(tok) ==
  CASE tok = "0" -> 0
    [] tok = "1" -> 1
    [] tok = "2" -> 2
    [] tok = "3" -> 3
    [] OTHER -> -1

(***************************************************************************)
(* RawResponse                                                             *)
(***************************************************************************)
RawResponse(first_line, data_blocks) ==
  [code |-> ParseCode(first_line[1]),
   first_line |-> first_line,
   data_blocks |-> data_blocks]

\* Responses the server may give to any command; a data block comes with the
\* codes the parser takes for multi-line ones.
Responses ==
  { RawResponse(<<"101", "caps">>, Some(<<<<"VERSION", "2">>, <<"READER">>>>)),
    RawResponse(<<"101", "caps">>, Some(<<<<"VERSION", "2">>, <<"OVER", "MSGID">>>>)),
    RawResponse(<<"101", "caps">>, Some(<<<<"VERSION", "2">>, <<>>>>)),
    RawResponse(<<"205", "bye">>, None),
    RawResponse(<<"211", "2", "1", "2", "alt.test">>, Some(<<>>)),
    RawResponse(<<"211", "0", "0", "0", "misc.test">>, Some(<<>>)),
    RawResponse(<<"211", "x", "1", "2", "alt.test">>, Some(<<>>)),
    RawResponse(<<"281", "ok">>, None),
    RawResponse(<<"381", "more">>, None),
    RawResponse(<<"411", "no", "such", "group">>, None),
    RawResponse(<<"500", "what">>, None) }

(***************************************************************************)
(* Errors and results                                                      *)
(***************************************************************************)
Ok(v) == [kind |-> "Ok", code |-> 0, msg |-> <<>>, value |-> Some(v)]

OkUnit == [kind |-> "Ok", code |-> 0, msg |-> <<>>, value |-> None]

\* Error::Failure { code, resp, msg }
Failure(code, msg) ==
  [kind |-> "Failure", code |-> code, msg |-> msg, value |-> None]

\* Error::bad_response(resp)
bad_response(resp) ==
  [kind |-> "BadResponse", code |-> resp.code, msg |-> <<>>, value |-> None]

\* the error `?` propagates out of NntpConnection::connect and ::command
ConnectionError ==
  [kind |-> "Connection", code |-> 0, msg |-> <<>>, value |-> None]

\* the error `?` propagates out of Group::try_from and Capabilities::try_from
DeserializationError ==
  [kind |-> "Deserialization", code |-> 0, msg |-> <<>>, value |-> None]

(***************************************************************************)
(* Typed views of a response                                               *)
(***************************************************************************)
\* Group::try_from(&resp): "211 number low high name"
GroupTryFrom(resp) ==
  LET fl == resp.first_line IN
  IF Len(fl) < 5 THEN DeserializationError
  ELSE IF ParseNum(fl[2]) < 0 \/ ParseNum(fl[3]) < 0 \/ ParseNum(fl[4]) < 0
       THEN DeserializationError
       ELSE Ok([name |-> fl[5], number |-> ParseNum(fl[2]),
                low |-> ParseNum(fl[3]), high |-> ParseNum(fl[4])])

\* Capabilities::try_from(&resp): one label and its parameters per line of
\* the data block
CapabilitiesTryFrom(resp) ==
  IF resp.data_blocks = None THEN DeserializationError
  ELSE LET lines == resp.data_blocks[1] IN
       IF \E i \in 1..Len(lines) : lines[i] = <<>> THEN DeserializationError
       ELSE Ok({ [name |-> Head(lines[i]), args |-> Tail(lines[i])]
                   : i \in 1..Len(lines) })

(***************************************************************************)
(* Commands (types::command) as written on the wire                        *)
(***************************************************************************)
Group(name) == [verb |-> "GROUP", arg |-> name]

Capabilities == [verb |-> "CAPABILITIES", arg |-> ""]

Quit == [verb |-> "QUIT", arg |-> ""]

AuthInfoUser(username) == [verb |-> "AUTHINFO USER", arg |-> username]

AuthInfoPass(password) == [verb |-> "AUTHINFO PASS", arg |-> password]

\* Group names a caller passes to set_group / ClientConfig::group
GroupNames == {"alt.test", "missing.group"}

\* The credentials a caller passes to ClientConfig::authinfo_user_pass
Credentials == {<<"user", "secret">>}

(***************************************************************************)
(* State                                                                   *)
(***************************************************************************)
VARIABLES
  builder,        \* the ClientConfig the caller builds and connects from
  pc,             \* position of the caller: "new", inside connect, "connected", "failed"
  sent,           \* commands written on the connection, in order
  closed,         \* the server answered QUIT with "connection closing" and hung up
  user_resp,      \* authenticate: response to AUTHINFO USER
  pass_resp,      \* authenticate: response to AUTHINFO PASS
  resp,           \* response returned by the latest NntpConnection::command
  connect_result, \* what ClientConfig::connect returned, None while it has not
  config,         \* NntpClient.config
  capabilities,   \* NntpClient.capabilities
  group,          \* NntpClient.group
  ret,            \* the latest session method called and what it returned
  calls,          \* number of session methods called so far
  outbox,         \* command lines the client has written that the server has not read
  wire,           \* bytes the server has written that the client has not read
  wpc,            \* position inside NntpConnection::command: "idle", "written", "reading"
  served,         \* the response the server wrote for the command in flight
  response        \* what the latest NntpConnection::command returned

vars ==
  <<builder, pc, sent, closed, user_resp, pass_resp, resp, connect_result,
    config, capabilities, group, ret, calls, outbox, wire, wpc, served,
    response>>

\* the connection seen byte by byte
wvars == <<outbox, wire, wpc, served, response>>

(***************************************************************************)
(* NntpConnection::command: write one command, read one response.          *)
(* An outcome says whether the command line reached the wire and which     *)
(* response, if any, came back.                                            *)
(***************************************************************************)
Outcomes ==
  { [written |-> FALSE, resp |-> None], [written |-> TRUE, resp |-> None] }
  \cup (IF closed THEN {}
        ELSE { [written |-> TRUE, resp |-> Some(r)] : r \in Responses })

command(c, o) ==
  /\ sent' = IF o.written THEN Append(sent, c) ELSE sent
  /\ resp' = o.resp
  /\ closed' = (closed \/ (c = Quit /\ o.resp # None
                            /\ o.resp[1].code = Kind.ConnectionClosing))

(***************************************************************************)
(* NntpClient                                                              *)
(***************************************************************************)
\* set_group without the NoSuchNewsgroup arm
set_group_match_no_arm(r, g) ==
  IF r = None THEN [ret |-> ConnectionError, group |-> g]
  ELSE LET rs == r[1] IN
       CASE rs.code = Kind.GroupSelected ->
              LET parsed == GroupTryFrom(rs) IN
              IF parsed.kind = "Ok"
              THEN [ret |-> parsed, group |-> Some(parsed.value[1])]
              ELSE [ret |-> parsed, group |-> g]
         [] OTHER ->
              [ret |-> Failure(rs.code, rs.first_line), group |-> g]

\* set_group storing the new group only when none was selected
set_group_match_keep_old(r, g) ==
  IF r = None THEN [ret |-> ConnectionError, group |-> g]
  ELSE LET rs == r[1] IN
       CASE rs.code = Kind.GroupSelected ->
              LET parsed == GroupTryFrom(rs) IN
              IF parsed.kind = "Ok"
              THEN [ret |-> parsed,
                    group |-> IF g = None THEN Some(parsed.value[1]) ELSE g]
              ELSE [ret |-> parsed, group |-> g]
         [] rs.code = Kind.NoSuchNewsgroup ->
              [ret |-> bad_response(rs), group |-> g]
         [] OTHER ->
              [ret |-> Failure(rs.code, rs.first_line), group |-> g]

\* the match in set_group: the value returned and the group field afterwards
set_group_match(r, g) ==
  IF r = None THEN [ret |-> ConnectionError, group |-> g]
  ELSE LET rs == r[1] IN
       CASE rs.code = Kind.GroupSelected ->
              LET parsed == GroupTryFrom(rs) IN
              IF parsed.kind = "Ok"
              THEN [ret |-> parsed, group |-> Some(parsed.value[1])]
              ELSE [ret |-> parsed, group |-> g]
         [] rs.code = Kind.NoSuchNewsgroup ->
              [ret |-> bad_response(rs), group |-> g]
         [] OTHER ->
              [ret |-> Failure(rs.code, rs.first_line), group |-> g]

set_group(name) ==
  /\ pc = "connected"
  /\ calls < MaxCalls
  /\ \E o \in Outcomes :
       LET m == set_group_match(o.resp, group) IN
       /\ command(Group(name), o)
       /\ group' = m.group
       /\ ret' = [op |-> "set_group", result |-> m.ret]
  /\ calls' = calls + 1
  /\ UNCHANGED <<builder, pc, user_resp, pass_resp, connect_result, config,
                 capabilities>>
  /\ UNCHANGED wvars

\* update_capabilities resetting the field before it checks the response
update_capabilities_check_reset_first(r, caps) ==
  IF r = None THEN [ret |-> ConnectionError, capabilities |-> caps]
  ELSE LET rs == r[1] IN
       IF rs.code # Kind.Capabilities
       THEN [ret |-> bad_response(rs), capabilities |-> {}]
       ELSE LET parsed == CapabilitiesTryFrom(rs) IN
            IF parsed.kind = "Ok"
            THEN [ret |-> parsed, capabilities |-> parsed.value[1]]
            ELSE [ret |-> parsed, capabilities |-> {}]

\* update_capabilities adding the new capabilities to the old ones
update_capabilities_check_merge(r, caps) ==
  IF r = None THEN [ret |-> ConnectionError, capabilities |-> caps]
  ELSE LET rs == r[1] IN
       IF rs.code # Kind.Capabilities
       THEN [ret |-> bad_response(rs), capabilities |-> caps]
       ELSE LET parsed == CapabilitiesTryFrom(rs) IN
            IF parsed.kind = "Ok"
            THEN [ret |-> parsed, capabilities |-> caps \cup parsed.value[1]]
            ELSE [ret |-> parsed, capabilities |-> caps]

\* update_capabilities after the command: the value returned and the
\* capabilities field afterwards
update_capabilities_check(r, caps) ==
  IF r = None THEN [ret |-> ConnectionError, capabilities |-> caps]
  ELSE LET rs == r[1] IN
       IF rs.code # Kind.Capabilities
       THEN [ret |-> bad_response(rs), capabilities |-> caps]
       ELSE LET parsed == CapabilitiesTryFrom(rs) IN
            IF parsed.kind = "Ok"
            THEN [ret |-> parsed, capabilities |-> parsed.value[1]]
            ELSE [ret |-> parsed, capabilities |-> caps]

update_capabilities ==
  /\ pc = "connected"
  /\ calls < MaxCalls
  /\ \E o \in Outcomes :
       LET m == update_capabilities_check(o.resp, capabilities) IN
       /\ command(Capabilities, o)
       /\ capabilities' = m.capabilities
       /\ ret' = [op |-> "update_capabilities", result |-> m.ret]
  /\ calls' = calls + 1
  /\ UNCHANGED <<builder, pc, user_resp, pass_resp, connect_result, config,
                 group>>
  /\ UNCHANGED wvars

\* close clearing the group before it checks the response
close_check_clear_first(r, g) ==
  IF r = None THEN [ret |-> ConnectionError, group |-> g]
  ELSE LET rs == r[1] IN
       IF rs.code # Kind.ConnectionClosing
       THEN [ret |-> Failure(rs.code, <<"Failed to close connection">>),
             group |-> None]
       ELSE [ret |-> OkUnit, group |-> None]

\* close after the command: the value returned and the group field afterwards
close_check(r, g) ==
  IF r = None THEN [ret |-> ConnectionError, group |-> g]
  ELSE LET rs == r[1] IN
       IF rs.code # Kind.ConnectionClosing
       THEN [ret |-> Failure(rs.code, <<"Failed to close connection">>),
             group |-> g]
       ELSE [ret |-> OkUnit, group |-> None]

\* close dropping the capabilities together with the group
close_drops_capabilities ==
  /\ pc = "connected"
  /\ calls < MaxCalls
  /\ \E o \in Outcomes :
       LET m == close_check(o.resp, group) IN
       /\ command(Quit, o)
       /\ group' = m.group
       /\ capabilities' = IF m.ret.kind = "Ok" THEN {} ELSE capabilities
       /\ ret' = [op |-> "close", result |-> m.ret]
  /\ calls' = calls + 1
  /\ UNCHANGED <<builder, pc, user_resp, pass_resp, connect_result, config>>
  /\ UNCHANGED wvars

close ==
  /\ pc = "connected"
  /\ calls < MaxCalls
  /\ \E o \in Outcomes :
       LET m == close_check(o.resp, group) IN
       /\ command(Quit, o)
       /\ group' = m.group
       /\ ret' = [op |-> "close", result |-> m.ret]
  /\ calls' = calls + 1
  /\ UNCHANGED <<builder, pc, user_resp, pass_resp, connect_result, config,
                 capabilities>>
  /\ UNCHANGED wvars

(***************************************************************************)
(* ClientConfig                                                            *)
(***************************************************************************)
ClientConfig_new ==
  [tls_config |-> None, authinfo |-> None, group |-> None,
   read_timeout |-> None]

\* The builder is borrowed by connect while it runs, so it is only mutated
\* outside of it.
ClientConfig_authinfo_user_pass(username, password) ==
  /\ pc = "new"
  /\ builder' = [builder EXCEPT !.authinfo = Some(<<username, password>>)]
  /\ UNCHANGED <<pc, sent, closed, user_resp, pass_resp, resp, connect_result,
                 config, capabilities, group, ret, calls>>
  /\ UNCHANGED wvars

ClientConfig_group(name) ==
  /\ pc = "new"
  /\ builder' = [builder EXCEPT !.group = Some(name)]
  /\ UNCHANGED <<pc, sent, closed, user_resp, pass_resp, resp, connect_result,
                 config, capabilities, group, ret, calls>>
  /\ UNCHANGED wvars

\* TLS configurations and read timeouts a caller passes to the builder
TlsConfigs == {"tls"}

ReadTimeouts == {None, Some(30)}

\* tls_config writing through to the configuration of the connected session
ClientConfig_tls_config_shared(c) ==
  /\ pc \in {"new", "connected"}
  /\ builder' = [builder EXCEPT !.tls_config = Some(c)]
  /\ config' = IF pc = "connected" THEN Some(builder') ELSE config
  /\ UNCHANGED <<pc, sent, closed, user_resp, pass_resp, resp, connect_result,
                 capabilities, group, ret, calls>>
  /\ UNCHANGED wvars

ClientConfig_tls_config(c) ==
  /\ pc \in {"new", "connected"}
  /\ builder' = [builder EXCEPT !.tls_config = Some(c)]
  /\ UNCHANGED <<pc, sent, closed, user_resp, pass_resp, resp, connect_result,
                 config, capabilities, group, ret, calls>>
  /\ UNCHANGED wvars

ClientConfig_read_timeout(duration) ==
  /\ pc \in {"new", "connected"}
  /\ builder' = [builder EXCEPT !.read_timeout = duration]
  /\ UNCHANGED <<pc, sent, closed, user_resp, pass_resp, resp, connect_result,
                 config, capabilities, group, ret, calls>>
  /\ UNCHANGED wvars

\* authinfo_user_pass on a builder a session was already connected from
ClientConfig_authinfo_user_pass_reused(username, password) ==
  /\ pc = "connected"
  /\ builder' = [builder EXCEPT !.authinfo = Some(<<username, password>>)]
  /\ UNCHANGED <<pc, sent, closed, user_resp, pass_resp, resp, connect_result,
                 config, capabilities, group, ret, calls>>
  /\ UNCHANGED wvars

\* group on a builder a session was already connected from
ClientConfig_group_reused(name) ==
  /\ pc = "connected"
  /\ builder' = [builder EXCEPT !.group = Some(name)]
  /\ UNCHANGED <<pc, sent, closed, user_resp, pass_resp, resp, connect_result,
                 config, capabilities, group, ret, calls>>
  /\ UNCHANGED wvars

\* connect returns Err(e): no NntpClient is built
connect_fails(e) ==
  /\ pc' = "failed"
  /\ connect_result' = Some(e)
  /\ UNCHANGED <<config, capabilities, group>>

\* connect negotiating capabilities before it authenticates
ClientConfig_connect_capabilities_first ==
  /\ pc = "new"
  /\ \E up \in BOOLEAN :
       IF up
       THEN /\ pc' = "get_capabilities"
            /\ UNCHANGED connect_result
       ELSE /\ pc' = "failed"
            /\ connect_result' = Some(ConnectionError)
  /\ UNCHANGED <<builder, sent, closed, user_resp, pass_resp, resp, config,
                 capabilities, group, ret, calls>>
  /\ UNCHANGED wvars

\* connect, up to the transport being up and the greeting read
ClientConfig_connect ==
  /\ pc = "new"
  /\ \E up \in BOOLEAN :
       IF up
       THEN /\ pc' = IF builder.authinfo # None THEN "authenticate_user"
                     ELSE "get_capabilities"
            /\ UNCHANGED connect_result
       ELSE /\ pc' = "failed"
            /\ connect_result' = Some(ConnectionError)
  /\ UNCHANGED <<builder, sent, closed, user_resp, pass_resp, resp, config,
                 capabilities, group, ret, calls>>
  /\ UNCHANGED wvars

\* authenticate going on to AUTHINFO PASS whatever the server answered
authenticate_user_check_any_code(r) ==
  IF r = None THEN Some(ConnectionError)
  ELSE None

\* authenticate after AUTHINFO USER: the error returned, None to go on
authenticate_user_check(r) ==
  IF r = None THEN Some(ConnectionError)
  ELSE IF r[1].code # MoreAuthRequired
       THEN Some(Failure(r[1].code, <<"AUTHINFO USER failed">>))
       ELSE None

\* connect calling authenticate: the AUTHINFO USER exchange
authenticate_user ==
  /\ pc = "authenticate_user"
  /\ \E o \in Outcomes :
       LET e == authenticate_user_check(o.resp) IN
       /\ command(AuthInfoUser(builder.authinfo[1][1]), o)
       /\ user_resp' = o.resp
       /\ IF e # None
          THEN connect_fails(e[1])
          ELSE /\ pc' = "authenticate_pass"
               /\ UNCHANGED <<connect_result, config, capabilities, group>>
  /\ UNCHANGED <<builder, pass_resp, ret, calls>>
  /\ UNCHANGED wvars

\* authenticate accepting any 2xx answer to AUTHINFO PASS
authenticate_pass_check_any_2xx(r) ==
  IF r = None THEN Some(ConnectionError)
  ELSE IF r[1].code < 200 \/ r[1].code >= 300
       THEN Some(Failure(r[1].code, <<"AUTHINFO PASS failed">>))
       ELSE None

\* authenticate after AUTHINFO PASS: the error returned, None for Ok(())
authenticate_pass_check(r) ==
  IF r = None THEN Some(ConnectionError)
  ELSE IF r[1].code # Kind.AuthenticationAccepted
       THEN Some(Failure(r[1].code, <<"AUTHINFO PASS failed">>))
       ELSE None

\* connect calling authenticate: the AUTHINFO PASS exchange
authenticate_pass ==
  /\ pc = "authenticate_pass"
  /\ \E o \in Outcomes :
       LET e == authenticate_pass_check(o.resp) IN
       /\ command(AuthInfoPass(builder.authinfo[1][2]), o)
       /\ pass_resp' = o.resp
       /\ IF e # None
          THEN connect_fails(e[1])
          ELSE /\ pc' = "get_capabilities"
               /\ UNCHANGED <<connect_result, config, capabilities, group>>
  /\ UNCHANGED <<builder, user_resp, ret, calls>>
  /\ UNCHANGED wvars

\* get_capabilities taking any answer for a capability list
get_capabilities_check_any_code(r) ==
  IF r = None THEN ConnectionError
  ELSE IF r[1].code # Kind.Capabilities THEN Ok({})
       ELSE CapabilitiesTryFrom(r[1])

\* get_capabilities after the command
get_capabilities_check(r) ==
  IF r = None THEN ConnectionError
  ELSE IF r[1].code # Kind.Capabilities THEN bad_response(r[1])
       ELSE CapabilitiesTryFrom(r[1])

\* connect calling get_capabilities; without an initial group the NntpClient
\* is built right after
get_capabilities ==
  /\ pc = "get_capabilities"
  /\ \E o \in Outcomes :
       LET c == get_capabilities_check(o.resp) IN
       /\ command(Capabilities, o)
       /\ IF c.kind # "Ok"
          THEN connect_fails(c)
          ELSE /\ capabilities' = c.value[1]
               /\ IF builder.group # None
                  THEN /\ pc' = "select_group"
                       /\ UNCHANGED <<connect_result, config, group>>
                  ELSE /\ pc' = "connected"
                       /\ connect_result' = Some(OkUnit)
                       /\ config' = Some(builder)
                       /\ group' = None
  /\ UNCHANGED <<builder, user_resp, pass_resp, ret, calls>>
  /\ UNCHANGED wvars

\* select_group after the command
select_group_match(r) ==
  IF r = None THEN ConnectionError
  ELSE LET rs == r[1] IN
       CASE rs.code = Kind.GroupSelected -> GroupTryFrom(rs)
         [] rs.code = Kind.NoSuchNewsgroup -> bad_response(rs)
         [] OTHER -> Failure(rs.code, rs.first_line)

\* connect treating the initial group as optional: a failed GROUP gives a
\* session without a group
select_group_failure_ignored ==
  /\ pc = "select_group"
  /\ \E o \in Outcomes :
       LET g == select_group_match(o.resp) IN
       /\ command(Group(builder.group[1]), o)
       /\ pc' = "connected"
       /\ connect_result' = Some(OkUnit)
       /\ config' = Some(builder)
       /\ group' = IF g.kind # "Ok" THEN None ELSE Some(g.value[1])
       /\ UNCHANGED capabilities
  /\ UNCHANGED <<builder, user_resp, pass_resp, ret, calls>>
  /\ UNCHANGED wvars

\* connect keeping the configured name instead of the one the server reports
select_group_configured_name ==
  /\ pc = "select_group"
  /\ \E o \in Outcomes :
       LET g == select_group_match(o.resp) IN
       /\ command(Group(builder.group[1]), o)
       /\ IF g.kind # "Ok"
          THEN connect_fails(g)
          ELSE /\ pc' = "connected"
               /\ connect_result' = Some(OkUnit)
               /\ config' = Some(builder)
               /\ group' = Some([g.value[1] EXCEPT !.name = builder.group[1]])
               /\ UNCHANGED capabilities
  /\ UNCHANGED <<builder, user_resp, pass_resp, ret, calls>>
  /\ UNCHANGED wvars

\* connect calling select_group, then building the NntpClient
select_group ==
  /\ pc = "select_group"
  /\ \E o \in Outcomes :
       LET g == select_group_match(o.resp) IN
       /\ command(Group(builder.group[1]), o)
       /\ IF g.kind # "Ok"
          THEN connect_fails(g)
          ELSE /\ pc' = "connected"
               /\ connect_result' = Some(OkUnit)
               /\ config' = Some(builder)
               /\ group' = Some(g.value[1])
               /\ UNCHANGED capabilities
  /\ UNCHANGED <<builder, user_resp, pass_resp, ret, calls>>
  /\ UNCHANGED wvars

(***************************************************************************)
(* The connection byte by byte.  A byte is a one character string; a line  *)
(* as read from the transport keeps its CRLF.                              *)
(***************************************************************************)
\* Longest content line and most content lines of a data block the server
\* sends.
MaxLineLen == 2

MaxLines == 2

CR == "\r"

LF == "\n"

Dot == "."

CRLF == <<CR, LF>>

\* bytes of a content line
ContentBytes == {".", "a"}

ContentLines == UNION { [1..n -> ContentBytes] : n \in 0..MaxLineLen }

\* the content of a data block, before the sender escapes it
Blocks == UNION { [1..n -> ContentLines] : n \in 0..MaxLines }

\* first lines the server sends, without their CRLF
WireFirstLines ==
  { <<"1", "0", "1", " ", "c">>,
    <<"2", "0", "5", " ", "b">>,
    <<"2", "1", "1", " ", "1">>,
    <<"4", "1", "1", " ">>,
    <<"5", "0", "0">>,
    <<"2", "x", "5", " ">> }

DigitValue(b) ==
  CASE b = "0" -> 0
    [] b = "1" -> 1
    [] b = "2" -> 2
    [] b = "3" -> 3
    [] b = "4" -> 4
    [] b = "5" -> 5
    [] OTHER -> -1

\* the code of a line that starts with three ASCII digits, -1 otherwise
StatusCode(line) ==
  IF Len(line) < 3 THEN -1
  ELSE IF \E i \in 1..3 : DigitValue(line[i]) < 0 THEN -1
       ELSE 100 * DigitValue(line[1]) + 10 * DigitValue(line[2])
              + DigitValue(line[3])

\* the codes that introduce a multi-line data block
is_multiline(code) == code \in {Kind.Capabilities, Kind.GroupSelected}

\* sender side escaping of a content line
DotStuff(line) ==
  IF line # <<>> /\ line[1] = Dot THEN <<Dot>> \o line ELSE line

RECURSIVE EncodeBlock(_)
\* a data block on the wire: the escaped lines, then the terminator line
EncodeBlock(block) ==
  IF block = <<>> THEN <<Dot>> \o CRLF
  ELSE DotStuff(Head(block)) \o CRLF \o EncodeBlock(Tail(block))

\* a response on the wire
EncodeResponse(r) ==
  r.first_line \o CRLF
  \o (IF r.block # None THEN EncodeBlock(r.block[1]) ELSE <<>>)

\* responses a server writes: a data block exactly after a multi-line code
ServerResponses ==
  { [first_line |-> fl, block |-> b] :
      fl \in WireFirstLines,
      b \in {None} \cup { Some(blk) : blk \in Blocks } }

WellFramed(r) == (r.block # None) <=> is_multiline(StatusCode(r.first_line))

\* Rust's payload[start..end]
Slice(bytes, start, end) == SubSeq(bytes, start + 1, end)

\* Transport::read_line: the bytes up to and including the first CRLF
read_line(w) ==
  LET ends == { i \in 1..(Len(w) - 1) : w[i] = CR /\ w[i + 1] = LF } IN
  IF ends = {} THEN [ok |-> FALSE, line |-> <<>>, rest |-> w]
  ELSE LET e == CHOOSE i \in ends : \A j \in ends : i <= j IN
       [ok |-> TRUE, line |-> SubSeq(w, 1, e + 1),
        rest |-> SubSeq(w, e + 2, Len(w))]

EmptyDataBlocks == [payload |-> <<>>, line_boundaries |-> <<>>]

RECURSIVE read_data_blocks_no_unstuffing(_, _)
\* the parser storing every line as it came
read_data_blocks_no_unstuffing(w, db) ==
  LET rl == read_line(w) IN
  IF ~rl.ok THEN [ok |-> FALSE, data_blocks |-> db, rest |-> w]
  ELSE IF rl.line = <<Dot>> \o CRLF
       THEN [ok |-> TRUE, data_blocks |-> db, rest |-> rl.rest]
       ELSE LET start == Len(db.payload) IN
            read_data_blocks_no_unstuffing(rl.rest,
              [payload |-> db.payload \o rl.line,
               line_boundaries |->
                 Append(db.line_boundaries,
                        <<start, start + Len(rl.line) - 2>>)])

RECURSIVE read_data_blocks(_, _)
\* the parser's data block loop: read lines up to the terminator line, undo
\* the escaping, append to the payload and record the boundary of the line
\* without its CRLF
read_data_blocks(w, db) ==
  LET rl == read_line(w) IN
  IF ~rl.ok THEN [ok |-> FALSE, data_blocks |-> db, rest |-> w]
  ELSE IF rl.line = <<Dot>> \o CRLF
       THEN [ok |-> TRUE, data_blocks |-> db, rest |-> rl.rest]
       ELSE LET stored == IF rl.line[1] = Dot /\ rl.line[2] = Dot
                          THEN Tail(rl.line) ELSE rl.line
                start == Len(db.payload)
            IN read_data_blocks(rl.rest,
                 [payload |-> db.payload \o stored,
                  line_boundaries |->
                    Append(db.line_boundaries,
                           <<start, start + Len(stored) - 2>>)])

NoResponse == [code |-> -1, first_line |-> <<>>, data_blocks |-> None]

\* the parser: first line, code, and the data block of a multi-line code
read_response(w) ==
  LET rl == read_line(w) IN
  IF ~rl.ok THEN [ok |-> FALSE, resp |-> NoResponse, rest |-> w]
  ELSE LET code == StatusCode(rl.line) IN
       IF code < 0 THEN [ok |-> FALSE, resp |-> NoResponse, rest |-> rl.rest]
       ELSE IF ~is_multiline(code)
            THEN [ok |-> TRUE,
                  resp |-> [code |-> code, first_line |-> rl.line,
                            data_blocks |-> None],
                  rest |-> rl.rest]
            ELSE LET d == read_data_blocks(rl.rest, EmptyDataBlocks) IN
                 IF ~d.ok
                 THEN [ok |-> FALSE, resp |-> NoResponse, rest |-> d.rest]
                 ELSE [ok |-> TRUE,
                       resp |-> [code |-> code, first_line |-> rl.line,
                                 data_blocks |-> Some(d.data_blocks)],
                       rest |-> d.rest]

(***************************************************************************)
(* RawResponse and DataBlocks accessors                                    *)
(***************************************************************************)
has_data_blocks(r) == r.data_blocks # None

\* first_line[3..]
first_line_without_code_from_3(r) ==
  IF Len(r.first_line) < 3 THEN None
  ELSE Some(Slice(r.first_line, 3, Len(r.first_line)))

\* first_line[4..]; None when the slice index is out of range and the call
\* panics
first_line_without_code(r) ==
  IF Len(r.first_line) < 4 THEN None
  ELSE Some(Slice(r.first_line, 4, Len(r.first_line)))

payload_len(db) == Len(db.payload)

\* lines_len returning the length of the payload
lines_len_of_payload(db) == Len(db.payload)

lines_len(db) == Len(db.line_boundaries)

is_empty(db) == db.line_boundaries = <<>>

\* the slices running on over the two bytes after each boundary
DataBlocks_lines_with_terminator(db) ==
  [i \in 1..Len(db.line_boundaries) |->
     Slice(db.payload, db.line_boundaries[i][1],
           db.line_boundaries[i][2] + 2)]

\* the slices Lines::next yields, in order
DataBlocks_lines(db) ==
  [i \in 1..Len(db.line_boundaries) |->
     Slice(db.payload, db.line_boundaries[i][1], db.line_boundaries[i][2])]

(***************************************************************************)
(* A session method calling NntpConnection::command, step by step          *)
(***************************************************************************)
\* command, first half: the command line is written
command_write(c) ==
  /\ wpc = "idle"
  /\ outbox' = Append(outbox, c)
  /\ wpc' = "written"
  /\ response' = None
  /\ served' = None
  /\ UNCHANGED wire

\* set_group writing GROUP without waiting for the response before it
set_group_call_pipelined(name) ==
  /\ wpc \in {"idle", "reading"}
  /\ outbox' = Append(outbox, Group(name))
  /\ wpc' = "written"
  /\ response' = None
  /\ served' = None
  /\ UNCHANGED wire
  /\ UNCHANGED <<builder, pc, sent, closed, user_resp, pass_resp, resp,
                 connect_result, config, capabilities, group, ret, calls>>

set_group_call(name) ==
  /\ command_write(Group(name))
  /\ UNCHANGED <<builder, pc, sent, closed, user_resp, pass_resp, resp,
                 connect_result, config, capabilities, group, ret, calls>>

update_capabilities_call ==
  /\ command_write(Capabilities)
  /\ UNCHANGED <<builder, pc, sent, closed, user_resp, pass_resp, resp,
                 connect_result, config, capabilities, group, ret, calls>>

close_call ==
  /\ command_write(Quit)
  /\ UNCHANGED <<builder, pc, sent, closed, user_resp, pass_resp, resp,
                 connect_result, config, capabilities, group, ret, calls>>

\* the server reads the command and writes one response
server_respond ==
  /\ outbox # <<>>
  /\ \E r \in ServerResponses :
       /\ WellFramed(r)
       /\ served' = Some(r)
       /\ wire' = wire \o EncodeResponse(r)
  /\ outbox' = Tail(outbox)
  /\ wpc' = IF wpc = "written" THEN "reading" ELSE wpc
  /\ UNCHANGED response
  /\ UNCHANGED <<builder, pc, sent, closed, user_resp, pass_resp, resp,
                 connect_result, config, capabilities, group, ret, calls>>

\* command, second half: one response is read and parsed, and the method
\* returns
command_read ==
  /\ wpc = "reading"
  /\ LET p == read_response(wire) IN
     /\ response' = Some([ok |-> p.ok, resp |-> p.resp])
     /\ wire' = p.rest
  /\ wpc' = "idle"
  /\ UNCHANGED <<outbox, served>>
  /\ UNCHANGED <<builder, pc, sent, closed, user_resp, pass_resp, resp,
                 connect_result, config, capabilities, group, ret, calls>>

(***************************************************************************)
(* Specification                                                           *)
(***************************************************************************)
Init ==
  /\ builder = ClientConfig_new
  /\ pc = "new"
  /\ sent = <<>>
  /\ closed = FALSE
  /\ user_resp = None
  /\ pass_resp = None
  /\ resp = None
  /\ connect_result = None
  /\ config = None
  /\ capabilities = {}
  /\ group = None
  /\ ret = [op |-> "none", result |-> OkUnit]
  /\ calls = 0
  /\ outbox = <<>>
  /\ wire = <<>>
  /\ wpc = "idle"
  /\ served = None
  /\ response = None

Next ==
  \/ \E c \in Credentials : ClientConfig_authinfo_user_pass(c[1], c[2])
  \/ \E name \in GroupNames : ClientConfig_group(name)
  \/ ClientConfig_connect
  \/ authenticate_user
  \/ authenticate_pass
  \/ get_capabilities
  \/ select_group
  \/ \E name \in GroupNames : set_group(name)
  \/ update_capabilities
  \/ close

Spec == Init /\ [][Next]_vars

\* The builder and connect alone, the builder being used on after connect
\* has returned a session.
NextConfig ==
  \/ \E c \in Credentials : ClientConfig_authinfo_user_pass(c[1], c[2])
  \/ \E name \in GroupNames : ClientConfig_group(name)
  \/ \E c \in TlsConfigs : ClientConfig_tls_config(c)
  \/ \E d \in ReadTimeouts : ClientConfig_read_timeout(d)
  \/ \E c \in Credentials : ClientConfig_authinfo_user_pass_reused(c[1], c[2])
  \/ \E name \in GroupNames : ClientConfig_group_reused(name)
  \/ ClientConfig_connect
  \/ authenticate_user
  \/ authenticate_pass
  \/ get_capabilities
  \/ select_group

SpecConfig == Init /\ [][NextConfig]_vars

\* The connection alone: session methods issuing commands against a server
NextWire ==
  \/ \E name \in GroupNames : set_group_call(name)
  \/ update_capabilities_call
  \/ close_call
  \/ server_respond
  \/ command_read

SpecWire == Init /\ [][NextWire]_vars

TypeOK ==
  /\ pc \in {"new", "authenticate_user", "authenticate_pass",
             "get_capabilities", "select_group", "connected", "failed"}
  /\ closed \in BOOLEAN
  /\ calls \in 0..MaxCalls
  /\ Len(sent) <= 4 + MaxCalls
  /\ Len(group) <= 1
  /\ Len(config) <= 1
  /\ Len(connect_result) <= 1

(***************************************************************************)
(* Properties                                                              *)
(***************************************************************************)
\* this step is a call of the session method op
Called(op) == calls' = calls + 1 /\ ret'.op = op

\* this step is a call of the session method op whose command was answered
Answered(op) == Called(op) /\ resp' # None

\* C1: close() answered with "connection closing" returns Ok and leaves no
\* current group; answered with any other code it returns a Failure and the
\* session stays open with the group it had.
C1_CloseContract ==
  [][Answered("close") =>
       IF resp'[1].code = Kind.ConnectionClosing
       THEN ret'.result.kind = "Ok" /\ group' = None
       ELSE /\ ret'.result.kind = "Failure"
            /\ ret'.result.code = resp'[1].code
            /\ group' = group
            /\ ~closed'
            /\ pc' = "connected"]_vars

C1_Witness ==
  /\ ret.op = "close"
  /\ resp # None
  /\ ret.result.kind = "Failure"
  /\ group # None
  /\ ~closed

\* C2: set_group answered with "no such newsgroup" returns the not-found
\* error, which is not the Failure any other non-success code gives, and the
\* current group stays what it was.
C2_NoSuchNewsgroup ==
  [][Answered("set_group") =>
       /\ resp'[1].code = Kind.NoSuchNewsgroup =>
            /\ ret'.result.kind = "BadResponse"
            /\ ret'.result.kind # "Failure"
            /\ group' = group
       /\ resp'[1].code \notin {Kind.GroupSelected, Kind.NoSuchNewsgroup} =>
            ret'.result.kind = "Failure"]_vars

C2_Witness ==
  /\ ret.op = "set_group"
  /\ resp # None
  /\ resp[1].code = Kind.NoSuchNewsgroup
  /\ ret.result.kind = "BadResponse"
  /\ group # None

\* C3: set_group answered with "group selected" and a first line that parses
\* returns the Group of that first line, and that Group is the current group
\* afterwards, whatever was selected before.
C3_GroupSelected ==
  [][(/\ Answered("set_group")
      /\ resp'[1].code = Kind.GroupSelected
      /\ GroupTryFrom(resp'[1]).kind = "Ok") =>
       LET fl == resp'[1].first_line IN
       /\ ret'.result.kind = "Ok"
       /\ ret'.result.value =
            Some([name |-> fl[5], number |-> ParseNum(fl[2]),
                  low |-> ParseNum(fl[3]), high |-> ParseNum(fl[4])])
       /\ group' = ret'.result.value]_vars

C3_Witness ==
  /\ ret.op = "set_group"
  /\ ret.result.kind = "Ok"
  /\ calls = 2
  /\ group = ret.result.value
  /\ group[1].name = "misc.test"
  /\ group[1].number = 0

\* C4: once AUTHINFO USER is answered with a code other than 381, connect has
\* failed with a Failure and no AUTHINFO PASS is ever on the wire.
C4_UserRejected ==
  (user_resp # None /\ user_resp[1].code # 381) =>
    /\ pc = "failed"
    /\ connect_result # None
    /\ connect_result[1].kind = "Failure"
    /\ connect_result[1].code = user_resp[1].code
    /\ \A i \in 1..Len(sent) : sent[i].verb # "AUTHINFO PASS"

C4_Witness ==
  /\ user_resp # None
  /\ user_resp[1].code = 500
  /\ pc = "failed"
  /\ Len(sent) = 1

\* authenticate returns in this step
AuthReturns ==
  /\ pc \in {"authenticate_user", "authenticate_pass"}
  /\ pc' \notin {"authenticate_user", "authenticate_pass"}

\* C5: authenticate returns Ok exactly when AUTHINFO USER was answered with
\* "more authentication required" and AUTHINFO PASS with "authentication
\* accepted"; any other answer to PASS is a Failure, and connect returns it
\* without building a session.
C5_AuthExchange ==
  [][AuthReturns =>
       /\ (pc' # "failed") <=>
            /\ user_resp' # None /\ user_resp'[1].code = 381
            /\ pass_resp' # None /\ pass_resp'[1].code = 281
       /\ (pass_resp' # None /\ pass_resp'[1].code # 281) =>
            /\ pc' = "failed"
            /\ connect_result'[1].kind = "Failure"
            /\ connect_result'[1].code = pass_resp'[1].code
            /\ config' = None]_vars

C5_Witness ==
  /\ pc = "connected"
  /\ config[1].authinfo # None
  /\ pass_resp # None
  /\ pass_resp[1].code = 281

\* C6: the commands of connect go out in a fixed order: AUTHINFO USER first
\* and AUTHINFO PASS second when credentials are configured, CAPABILITIES
\* only once authentication has succeeded or was not configured, and GROUP
\* only when an initial group is configured, right after CAPABILITIES has
\* succeeded.
C6_ConnectOrder ==
  [][(calls' = 0 /\ sent' # sent) =>
       LET verb == sent'[Len(sent')].verb IN
       CASE verb = "AUTHINFO USER" ->
              builder.authinfo # None /\ sent = <<>>
         [] verb = "AUTHINFO PASS" ->
              /\ Len(sent) = 1 /\ sent[1].verb = "AUTHINFO USER"
              /\ user_resp # None /\ user_resp[1].code = 381
         [] verb = "CAPABILITIES" ->
              IF builder.authinfo = None THEN sent = <<>>
              ELSE /\ Len(sent) = 2
                   /\ sent[1].verb = "AUTHINFO USER"
                   /\ sent[2].verb = "AUTHINFO PASS"
                   /\ pass_resp # None /\ pass_resp[1].code = 281
         [] verb = "GROUP" ->
              /\ builder.group # None
              /\ sent # <<>> /\ sent[Len(sent)].verb = "CAPABILITIES"
              /\ resp # None /\ resp[1].code = 101
              /\ CapabilitiesTryFrom(resp[1]).kind = "Ok"
         [] OTHER -> FALSE]_vars

C6_Witness ==
  /\ pc = "connected"
  /\ calls = 0
  /\ Len(sent) = 4
  /\ sent[4].verb = "GROUP"

\* C7: a set_group or update_capabilities that returns an error of any kind
\* leaves the current group and the capabilities what they were.
C7_FailureKeepsState ==
  [][((Called("set_group") \/ Called("update_capabilities"))
      /\ ret'.result.kind # "Ok") =>
       group' = group /\ capabilities' = capabilities]_vars

C7_Witness ==
  /\ ret.op = "update_capabilities"
  /\ ret.result.kind = "Deserialization"
  /\ capabilities # {}
  /\ group # None

\* C8: once close() has succeeded the session is closed for good: no later
\* operation writes a command on the connection.
C8_ClosedTerminal ==
  [][closed => (closed' /\ sent' = sent)]_vars

\* C9: a CAPABILITIES exchange answered with a code other than
\* "capabilities follow" returns the Failure error with the received code,
\* the kind set_group returns for an unexpected code, not the not-found kind.
C9_CapabilitiesFailure ==
  [][/\ (Answered("update_capabilities")
         /\ resp'[1].code # Kind.Capabilities) =>
          /\ ret'.result.kind = "Failure"
          /\ ret'.result.code = resp'[1].code
     /\ (pc = "get_capabilities" /\ sent' # sent /\ resp' # None
         /\ resp'[1].code # Kind.Capabilities) =>
          /\ connect_result'[1].kind = "Failure"
          /\ connect_result'[1].code = resp'[1].code]_vars

\* the capabilities a data block lists, one per line
Listed(lines) ==
  { [name |-> lines[i][1], args |-> SubSeq(lines[i], 2, Len(lines[i]))]
      : i \in 1..Len(lines) }

\* C10: after a successful update_capabilities the capabilities are exactly
\* those of the response's data block; nothing held before survives unless
\* the response lists it.
C10_CapabilitiesReplaced ==
  [][(Called("update_capabilities") /\ ret'.result.kind = "Ok") =>
       /\ capabilities' = Listed(resp'[1].data_blocks[1])
       /\ ret'.result.value = Some(capabilities')]_vars

C10_Witness ==
  /\ ret.op = "update_capabilities"
  /\ ret.result.kind = "Ok"
  /\ \E c \in capabilities : c.name = "OVER"
  /\ \A c \in capabilities : c.name # "READER"

\* C11: when the initial GROUP exchange fails, after authentication and
\* capability negotiation have succeeded, connect returns that error and
\* builds no session.
C11_InitialGroupFailure ==
  [][(/\ pc = "select_group"
      /\ pc' # pc
      /\ \/ resp' = None
         \/ resp'[1].code # Kind.GroupSelected
         \/ GroupTryFrom(resp'[1]).kind # "Ok") =>
       /\ pc' = "failed"
       /\ config' = None
       /\ connect_result' # None
       /\ connect_result'[1].kind =
            IF resp' = None THEN "Connection"
            ELSE IF resp'[1].code = Kind.NoSuchNewsgroup THEN "BadResponse"
            ELSE IF resp'[1].code = Kind.GroupSelected THEN "Deserialization"
            ELSE "Failure"]_vars

C11_Witness ==
  /\ pc = "failed"
  /\ builder.authinfo # None
  /\ Len(sent) = 4
  /\ sent[4].verb = "GROUP"
  /\ connect_result[1].kind = "BadResponse"
  /\ config = None

\* the commands connect sends when every exchange succeeds
ConnectCommands(cfg) ==
  (IF cfg.authinfo # None
   THEN <<AuthInfoUser(cfg.authinfo[1][1]), AuthInfoPass(cfg.authinfo[1][2])>>
   ELSE <<>>)
  \o <<Capabilities>>
  \o (IF cfg.group # None THEN <<Group(cfg.group[1])>> ELSE <<>>)

IsPrefix(s, t) == Len(s) <= Len(t) /\ s = SubSeq(t, 1, Len(s))

\* the code that lets connect go on after the command c
ExpectedCode(c) ==
  CASE c.verb = "AUTHINFO USER" -> 381
    [] c.verb = "AUTHINFO PASS" -> 281
    [] OTHER -> 101

\* C18: the commands connect sends are a prefix of USER, PASS, CAPABILITIES,
\* GROUP restricted to the configured steps, each at most once; a command
\* goes out only when the exchange before it succeeded, and none after
\* connect has failed.
C18_ConnectPrefix ==
  [][/\ calls' = 0 => IsPrefix(sent', ConnectCommands(builder'))
     /\ (calls' = 0 /\ sent' # sent /\ sent # <<>>) =>
          /\ resp # None
          /\ resp[1].code = ExpectedCode(sent[Len(sent)])
     /\ pc = "failed" => sent' = sent]_vars

C18_Witness ==
  /\ pc = "failed"
  /\ builder.authinfo # None
  /\ builder.group # None
  /\ Len(sent) = 3
  /\ resp # None
  /\ resp[1].code = 500

\* C19: set_group leaves the capabilities and the configuration alone,
\* update_capabilities the group and the configuration, close the
\* capabilities and the configuration; the group of a session changes only
\* in a successful set_group or a successful close.
C19_Frame ==
  [][/\ Called("set_group") =>
          capabilities' = capabilities /\ config' = config
     /\ Called("update_capabilities") =>
          group' = group /\ config' = config
     /\ Called("close") =>
          capabilities' = capabilities /\ config' = config
     /\ (pc = "connected" /\ group' # group) =>
          /\ Called("set_group") \/ Called("close")
          /\ ret'.result.kind = "Ok"]_vars

C19_Witness ==
  /\ ret.op = "close"
  /\ ret.result.kind = "Ok"
  /\ calls = 2
  /\ capabilities # {}
  /\ config # None
  /\ config[1].group # None

\* C20: the session connect returns has no group when none is configured and
\* otherwise the group of the GROUP response, and has the capabilities of
\* the CAPABILITIES response read during connect.
C20_InitialSession ==
  [][(pc # "connected" /\ pc' = "connected") =>
       LET caps_resp == IF pc = "select_group" THEN resp ELSE resp' IN
       /\ config' = Some(builder)
       /\ IF builder.group = None
          THEN group' = None
          ELSE LET fl == resp'[1].first_line IN
               group' = Some([name |-> fl[5], number |-> ParseNum(fl[2]),
                              low |-> ParseNum(fl[3]),
                              high |-> ParseNum(fl[4])])
       /\ caps_resp # None
       /\ capabilities' = Listed(caps_resp[1].data_blocks[1])]_vars

C20_Witness ==
  /\ pc = "connected"
  /\ calls = 0
  /\ config[1].group = Some("alt.test")
  /\ group # None
  /\ group[1].name = "misc.test"
  /\ \E c \in capabilities : c.name = "READER"


\* C13: the configuration of a session is the builder as it was when connect
\* ran; whatever is set on the builder afterwards, config() of the session
\* stays the same.
C13_ConfigSnapshot ==
  [][/\ (pc # "connected" /\ pc' = "connected") => config' = Some(builder)
     /\ pc = "connected" => config' = config]_vars

C13_Witness ==
  /\ pc = "connected"
  /\ config[1].tls_config = None
  /\ builder.tls_config # None
  /\ config[1].group = None
  /\ builder.group # None


\* a command call has returned a parsed response
Returned == response # None /\ response[1].ok

\* a command call has returned a parsed multi-line response
ReturnedBlock == Returned /\ response[1].resp.data_blocks # None

\* C12: a command is written only when no command is in flight and no byte
\* of an earlier response is unread, one command at a time; when the call
\* returns it has consumed the whole of the one response the server wrote,
\* data block and terminator line included, and nothing more.
C12_TurnTaking ==
  [][/\ outbox' # outbox /\ Len(outbox') >= Len(outbox) =>
          /\ wpc = "idle" /\ outbox = <<>> /\ wire = <<>>
          /\ Len(outbox') = 1
     /\ (wpc = "reading" /\ wpc' = "idle") =>
          /\ wire = EncodeResponse(served[1])
          /\ wire' = <<>>
          /\ outbox' = <<>>
          /\ response'[1].ok =>
               (has_data_blocks(response'[1].resp)
                  <=> served[1].block # None)]_vars

C12_Witness ==
  /\ wpc = "idle"
  /\ wire = <<>>
  /\ ReturnedBlock
  /\ Len(served[1].block[1]) = 2
  /\ served[1].block[1][1] = <<Dot>>

RECURSIVE Stored(_)
\* the content lines of a block, each with its CRLF, one after the other
Stored(block) ==
  IF block = <<>> THEN <<>>
  ELSE Head(block) \o CRLF \o Stored(Tail(block))

\* C14: every content line comes back from escaping and parsing as it was;
\* a wire line that starts with two dots is stored without the first one,
\* and the terminator line is consumed and not stored.
C14_DotUnstuffing ==
  ReturnedBlock =>
    LET db == response[1].resp.data_blocks[1]
        content == served[1].block[1]
    IN /\ DataBlocks_lines(db) = content
       /\ \A i \in 1..Len(content) :
            LET on_wire == DotStuff(content[i]) IN
            (Len(on_wire) >= 2 /\ on_wire[1] = Dot /\ on_wire[2] = Dot) =>
              DataBlocks_lines(db)[i] = Tail(on_wire)
       /\ db.payload = Stored(content)

C14_Witness ==
  /\ ReturnedBlock
  /\ Len(served[1].block[1]) = 2
  /\ served[1].block[1][1] = <<Dot, "a">>
  /\ served[1].block[1][2] = <<Dot>>

\* C15: a parsed data block has as many boundaries as content lines were
\* sent; the boundaries are strictly increasing, do not overlap and lie
\* within the payload; is_empty is true exactly when there is none.
C15_Boundaries ==
  ReturnedBlock =>
    LET db == response[1].resp.data_blocks[1]
        b == db.line_boundaries
    IN /\ lines_len(db) = Len(served[1].block[1])
       /\ Len(b) = Len(served[1].block[1])
       /\ \A i \in 1..Len(b) :
            0 <= b[i][1] /\ b[i][1] <= b[i][2] /\ b[i][2] <= payload_len(db)
       /\ \A i \in 1..Len(b), j \in 1..Len(b) :
            i < j => b[i][2] <= b[j][1] /\ b[i][1] < b[j][1]
                       /\ b[i][2] < b[j][2]
       /\ is_empty(db) <=> Len(b) = 0

C15_Witness ==
  /\ ReturnedBlock
  /\ served[1].block[1] = << <<>>, <<>> >>
  /\ lines_len(response[1].resp.data_blocks[1]) = 2

C17_WithoutCode ==
  Returned =>
    LET r == response[1].resp
        line == served[1].first_line \o CRLF
    IN /\ Len(r.first_line) >= 4
       /\ \A i \in 1..3 : DigitValue(r.first_line[i]) >= 0
       /\ first_line_without_code(r) # None
       /\ first_line_without_code(r)[1] =
            [i \in 1..(Len(line) - 4) |-> line[i + 4]]
       /\ SubSeq(r.first_line, 1, 4) \o first_line_without_code(r)[1]
            = r.first_line

C17_Witness ==
  /\ Returned
  /\ served[1].first_line = <<"5", "0", "0">>
  /\ first_line_without_code(response[1].resp) = Some(<<LF>>)

====
